---- MODULE Spec2Model ----
(***************************************************************************)
(* Model of the leakage-measurement engine of src/LIC.py (class LIC):      *)
(* construction and metric resolution, the attacker lifecycle, the         *)
(* mini-batch training loop, batched evaluation, the leakage computation   *)
(* and the multi-trial amortization.                                       *)
(*                                                                         *)
(* Abstractions.  Tensors of N rows are sequences of row identities        *)
(* <<tag, index>>.  An attacker's parameters are the symbolic pair (the    *)
(* instance whose random initialisation they come from, the number of      *)
(* optimizer steps applied since).  The attacker's forward pass belongs to *)
(* the pluggable attacker class, so its outputs are chosen                 *)
(* nondeterministically.  Floating-point scalars are exact rationals       *)
(* extended with nan and +/-inf; a standard deviation is represented by    *)
(* its square.  The optimizer's and scheduler's internal state (moments,   *)
(* learning rate) is not part of the model: an optimizer step is counted.  *)
(***************************************************************************)
EXTENDS Integers, Sequences, FiniteSets, TLC

\* ------------------------------------------------------------------ bounds
MaxN == 2
MaxBatch == 3
MaxEpochs == 2
MaxTrials == 2
MaxVocab == 2
MaxTrainN == 4
MaxTrainBatch == 5

\* ------------------------------------------------- extended rational values
Abs(n) == IF n < 0 THEN 0 - n ELSE n

RECURSIVE Gcd(_, _)
Gcd(a, b) == IF b = 0 THEN a ELSE Gcd(b, a % b)

Fin(n, d) ==
    LET g == Gcd(Abs(n), d)
    IN  [k |-> "fin", n |-> n \div g, d |-> d \div g]

NaN == [k |-> "nan", n |-> 0, d |-> 1]
Inf(s) == [k |-> "inf", n |-> s, d |-> 1]
Zero == Fin(0, 1)

Sign(n) == IF n < 0 THEN 0 - 1 ELSE IF n > 0 THEN 1 ELSE 0

IsFin(v) == v.k = "fin"

VNeg(a) == IF a.k = "nan" THEN NaN
           ELSE IF a.k = "inf" THEN Inf(0 - a.n)
           ELSE Fin(0 - a.n, a.d)

VAdd(a, b) ==
    IF a.k = "nan" \/ b.k = "nan" THEN NaN
    ELSE IF a.k = "inf" THEN (IF b.k = "inf" /\ b.n # a.n THEN NaN ELSE a)
    ELSE IF b.k = "inf" THEN b
    ELSE Fin(a.n * b.d + b.n * a.d, a.d * b.d)

VSub(a, b) == VAdd(a, VNeg(b))

VMul(a, b) ==
    IF a.k = "nan" \/ b.k = "nan" THEN NaN
    ELSE IF a.k = "inf" \/ b.k = "inf"
         THEN (IF Sign(a.n) * Sign(b.n) = 0 THEN NaN ELSE Inf(Sign(a.n) * Sign(b.n)))
    ELSE Fin(a.n * b.n, a.d * b.d)

\* IEEE division as performed on tensors: x/0 is nan or +/-inf, never an error.
VDiv(a, b) ==
    IF a.k = "nan" \/ b.k = "nan" THEN NaN
    ELSE IF b.k = "inf" THEN (IF a.k = "inf" THEN NaN ELSE Zero)
    ELSE IF b.n = 0 THEN (IF a.n = 0 THEN NaN ELSE Inf(Sign(a.n)))
    ELSE IF a.k = "inf" THEN Inf(Sign(a.n) * Sign(b.n))
    ELSE Fin(Sign(b.n) * a.n * b.d, a.d * Abs(b.n))

\* a < b on non-nan values
VLess(a, b) ==
    IF a.k = "inf" THEN (a.n < 0 /\ ~(b.k = "inf" /\ b.n < 0))
    ELSE IF b.k = "inf" THEN b.n > 0
    ELSE a.n * b.d < b.n * a.d

RECURSIVE VSum(_, _)
VSum(s, n) == IF n = 0 THEN Zero ELSE VAdd(VSum(s, n - 1), s[n])


\* ------------------------------------------------------------ input domains
\* Row identities of the three tensors handed to the engine.
Rows(tag, n) == [j \in 1..n |-> <<tag, j>>]

\* The protected attribute of row j: the alternating labels 1,0,1,...
Label(j) == j % 2

\* Raw attacker outputs, in tenths (0.2 and 0.8).
OutVals == {2, 8}

\* Values the out-of-repository "bce" evaluation function may return.
ExtVals == {Fin(0, 1), Fin(1, 2), Fin(1, 1)}

Str(v) == [t |-> "str", v |-> v]
UserMetric == [t |-> "callable", v |-> "user_metric"]
NotAMetric == [t |-> "other", v |-> "42"]

Methods == {"mean", "median", "mode"}

Min(a, b) == IF a < b THEN a ELSE b

\* torch.randperm(n): the orderings of 1..n
RECURSIVE Orderings(_)
Orderings(S) ==
    IF S = {} THEN {<<>>}
    ELSE UNION {{<<e>> \o p : p \in Orderings(S \ {e})} : e \in S}

Perms(n) == Orderings(1..n)

\* ------------------------------------------------------- registry (61-70)
loss_functions == {"mse", "cross-entropy", "bce"}
eval_functions == {"accuracy", "mse", "bce"}

\* Faulty variant of initEvalMetric: any argument is stored, unresolved.
initEvalMetric_lazy(metric) == [ok |-> TRUE, fn |-> metric.v]

\* initEvalMetric: the resolved metric, or the ValueError it raises.
initEvalMetric(metric) ==
    IF metric.t = "callable" THEN [ok |-> TRUE, fn |-> metric.v]
    ELSE IF metric.t = "str"
         THEN (IF metric.v \in eval_functions
               THEN [ok |-> TRUE, fn |-> metric.v]
               ELSE [ok |-> FALSE, fn |-> ""])
    ELSE [ok |-> FALSE, fn |-> ""]

\* Faulty variant of ResolveLoss: the lookup never fails.
ResolveLoss_any(loss) == TRUE

\* self.loss_functions[...] in train: a KeyError for an unknown identifier.
ResolveLoss(loss) == loss \in loss_functions

\* ------------------------------------------------- attacker instances (heap)
\* Instance identity matters only for aliasing between the two instances the
\* engine holds: the instances replaced by defineModel are unreachable from
\* then on, so each defineModel names the instance it constructs NewD and the
\* copy it makes NewM.
Ids == {"a", "b"}
NewD == "a"
NewM == "b"
Unset == "unset"
Null == [init |-> Unset, updates |-> 0, vocab |-> 0, training |-> FALSE]

\* Faulty variant of deepcopy: a second reference to the same instance.
deepcopy_alias(h, ref, id) == [heap |-> h, ref |-> ref]

\* copy.deepcopy: a new instance holding a copy of the parameters.
deepcopy(h, ref, id) == [heap |-> [h EXCEPT ![id] = h[ref]], ref |-> id]

\* Faulty variant of defineModel: the attackers are built only when none exists yet.
defineModel_lazy(h, d, m, v) ==
    IF d # Unset THEN [heap |-> h, D |-> d, M |-> m, pv |-> v]
    ELSE LET objD == [init |-> NewD, updates |-> 0, vocab |-> v, training |-> TRUE]
         IN  [heap |-> [id \in Ids |-> objD], D |-> NewD, M |-> NewM, pv |-> v]

\* Faulty variant of defineModel: the vocabulary size is injected only when the
\* constructor parameters hold none, so a later call builds with the old one.
defineModel_stale_vocab(h, d, m, v) ==
    LET pv   == IF d # Unset THEN h[d].vocab ELSE v
        objD == [init |-> NewD, updates |-> 0, vocab |-> pv, training |-> TRUE]
    IN  [heap |-> [id \in Ids |-> objD], D |-> NewD, M |-> NewM, pv |-> pv]

\* defineModel: inject the vocabulary size into the shared constructor
\* parameters, build D from them, deep-copy it into M.  The parameters of a
\* newly constructed instance are named after it (init).
defineModel(h, d, m, v) ==
    LET objD == [init |-> NewD, updates |-> 0, vocab |-> v, training |-> TRUE]
        cp   == deepcopy([h EXCEPT ![NewD] = objD], NewD, NewM)
    IN  [heap |-> [id \in Ids |-> IF id \in {NewD, cp.ref} THEN cp.heap[id] ELSE Null],
         D |-> NewD, M |-> cp.ref, pv |-> v]

\* ----------------------------------------------------- batching (127-153)
\* Faulty variant of Batches: floor instead of ceiling.
Batches_floor(n, bs) == n \div bs

\* math.ceil(len(x) / batch_size)
Batches(n, bs) == (n + bs - 1) \div bs

\* s[start : start + bs] with a 0-based start
Slice(s, st, bs) == SubSeq(s, st + 1, Min(st + bs, Len(s)))

\* s[perm]
Index(s, perm) == [j \in 1..Len(perm) |-> s[perm[j]]]

Zip(a, b) == [j \in 1..Len(a) |-> <<a[j], b[j]>>]

\* ------------------------------------------------- evaluation (165-177)
\* The zero buffer after the first k batch writes of the model's outputs.
RECURSIVE Buffer(_, _, _, _)
Buffer(out, n, bs, k) ==
    IF k = 0 THEN [j \in 1..n |-> 0]
    ELSE LET prev == Buffer(out, n, bs, k - 1)
             st   == (k - 1) * bs
         IN  [j \in 1..n |-> IF j > st /\ j <= st + bs THEN out[j] ELSE prev[j]]

\* y_pred > 0.5, then cast to float (tenths)
Binarize(buf) == [j \in 1..Len(buf) |-> IF buf[j] > 5 THEN 10 ELSE 0]

RECURSIVE SqErr(_, _, _)
SqErr(yp, yv, n) ==
    IF n = 0 THEN 0
    ELSE SqErr(yp, yv, n - 1) + (yp[n] - yv[n]) * (yp[n] - yv[n])

\* eval_functions["accuracy"]: (y_pred == y).float().mean()
Accuracy(yp, yv) == Fin(Cardinality({j \in 1..Len(yp) : yp[j] = yv[j]}), Len(yp))

\* eval_functions["mse"]: ((y_pred - y) ** 2).float().mean()
Mse(yp, yv) == Fin(SqErr(yp, yv, Len(yp)), 100 * Len(yp))

\* The value the configured metric returns ("bce" lives outside this file:
\* ext is its result) and whether it is a tensor or a Python float.
EvalMetric(fn, yp, yv, ext) ==
    IF fn = "accuracy" THEN [v |-> Accuracy(yp, yv), kind |-> "tensor"]
    ELSE IF fn = "mse" THEN [v |-> Mse(yp, yv), kind |-> "tensor"]
    ELSE IF fn = "bce" THEN [v |-> ext, kind |-> "tensor"]
    ELSE [v |-> Accuracy(yp, yv), kind |-> "float"]

\* calcLambda on rows 1..n with raw outputs out
Lambda(fn, thr, bs, n, out, ext) ==
    LET buf == Buffer(out, n, bs, Batches(n, bs))
        yp  == IF thr THEN Binarize(buf) ELSE buf
        yv  == [j \in 1..n |-> 10 * Label(j)]
    IN  EvalMetric(fn, yp, yv, ext)

\* ------------------------------------------------- leakage (108-111)
\* lambda_m - lambda_d, divided by lambda_m + lambda_d when normalized.  A
\* tensor division by zero yields nan/inf; a Python float one raises.
Leakage(ld, lm, norm) ==
    LET amp == VSub(lm.v, ld.v)
        den == VAdd(lm.v, ld.v)
    IN  IF ~norm THEN [ok |-> TRUE, v |-> amp]
        ELSE IF lm.kind = "float" /\ den = Zero THEN [ok |-> FALSE, v |-> NaN]
        ELSE [ok |-> TRUE, v |-> VDiv(amp, den)]

\* ------------------------------------------------- aggregation (231-244)
\* torch.mean
Mean(v) == VDiv(VSum(v, Len(v)), Fin(Len(v), 1))

\* Faulty variant of StdDivisor: the population divisor.
StdDivisor_population(n) == n

\* torch.std (unbiased), as its square
StdDivisor(n) == n - 1

StdSquared(v) ==
    LET m  == Mean(v)
        sq == [j \in 1..Len(v) |-> VMul(VSub(v[j], m), VSub(v[j], m))]
    IN  VDiv(VSum(sq, Len(v)), Fin(StdDivisor(Len(v)), 1))

\* torch.median: nan if any element is nan, else the lower middle element
Median(v) ==
    LET n == Len(v)
        m == (n - 1) \div 2
    IN  IF \E j \in 1..n : v[j].k = "nan" THEN NaN
        ELSE CHOOSE e \in {v[j] : j \in 1..n} :
               /\ Cardinality({j \in 1..n : VLess(v[j], e)}) <= m
               /\ Cardinality({j \in 1..n : ~VLess(e, v[j])}) > m

NoResult == [key |-> "", value |-> NaN, std_squared |-> NaN, num_trials |-> 0]

\* Faulty variant of Aggregate: an unknown method falls back to the mean.
Aggregate_fallback(meth, v, trials) ==
    IF meth = "median"
    THEN [ok |-> TRUE,
          r |-> [key |-> "Median", value |-> Median(v), std_squared |-> StdSquared(v),
                 num_trials |-> trials]]
    ELSE [ok |-> TRUE,
          r |-> [key |-> "Mean", value |-> Mean(v), std_squared |-> StdSquared(v),
                 num_trials |-> trials]]

Aggregate(meth, v, trials) ==
    IF meth = "mean"
    THEN [ok |-> TRUE,
          r |-> [key |-> "Mean", value |-> Mean(v), std_squared |-> StdSquared(v),
                 num_trials |-> trials]]
    ELSE IF meth = "median"
    THEN [ok |-> TRUE,
          r |-> [key |-> "Median", value |-> Median(v), std_squared |-> StdSquared(v),
                 num_trials |-> trials]]
    ELSE [ok |-> FALSE, r |-> NoResult]


\* ------------------------------------------------------------------- state
VARIABLES
    engine,          \* "none" until __init__ returns an object, then "live"
    eval_metric,     \* self.eval_metric
    loss_function,   \* self.train_params["loss_function"]
    threshold,       \* self.threshold
    batch_size,      \* self.train_params["batch_size"]
    epochs,          \* self.train_params["epochs"]
    vocab_size,      \* self.vocab_size (0 before captionPreprocess sets it)
    params_vocab,    \* self.model_params["attacker_params"]["vocab_size"]
    attacker_D,      \* self.attacker_D: an instance id, or Unset
    attacker_M,      \* self.attacker_M
    heap,            \* the attacker instances
    pc,              \* position of the running call
    error,           \* the exception that ended the last call, or "none"
    data, pred, feat,                     \* getAmortizedLeakage: tensors
    num_trials, method, normalized,       \* getAmortizedLeakage: arguments
    i, vals, result,                      \* getAmortizedLeakage: locals, return
    lambda_d, lambda_m,                   \* calcLeak: locals
    attacker_mode, model, x, y,           \* train: arguments and locals
    start, batches, epoch, batch_no, caller,
    epochLog,        \* history: the (input, target) slices of the current epoch
    trace,           \* history: the steps of the current calcLeak call
    preprocessed,    \* history: captionPreprocess calls of the current call
    trained,         \* history: training phases completed in the current call
    arg_metric       \* history: the eval_metric argument given to __init__

engineVars == <<engine, eval_metric, loss_function, threshold, batch_size, epochs>>
modelVars  == <<params_vocab, attacker_D, attacker_M, heap>>
callVars   == <<data, pred, feat, num_trials, method, normalized>>
loopVars   == <<i, vals, result>>
leakVars   == <<lambda_d, lambda_m>>
trainArgs  == <<attacker_mode, x, y, caller>>
trainVars  == <<model, start, batches, epoch, batch_no>>
histVars   == <<epochLog, trace, preprocessed, trained>>

vars == <<engineVars, vocab_size, modelVars, pc, error, callVars, loopVars,
          leakVars, trainArgs, trainVars, histVars, arg_metric>>

NoLambda == [v |-> Zero, kind |-> "tensor"]

Init ==
    /\ engine = "none"
    /\ eval_metric = ""
    /\ loss_function = ""
    /\ threshold = FALSE
    /\ batch_size = 0
    /\ epochs = 0
    /\ vocab_size = 0
    /\ params_vocab = 0
    /\ attacker_D = Unset
    /\ attacker_M = Unset
    /\ heap = [id \in Ids |-> Null]
    /\ pc = "start"
    /\ error = "none"
    /\ data = <<>> /\ pred = <<>> /\ feat = <<>>
    /\ num_trials = 0 /\ method = "" /\ normalized = FALSE
    /\ i = 0 /\ vals = <<>> /\ result = NoResult
    /\ lambda_d = NoLambda /\ lambda_m = NoLambda
    /\ attacker_mode = "" /\ model = Unset /\ x = <<>> /\ y = <<>>
    /\ start = 0 /\ batches = 0 /\ epoch = 0 /\ batch_no = 0 /\ caller = ""
    /\ epochLog = <<>> /\ trace = <<>> /\ preprocessed = 0 /\ trained = 0
    /\ arg_metric = [t |-> "", v |-> ""]

\* The engine exists and no call is running.
Callable == engine = "live" /\ pc \in {"idle", "returned", "raised"}

\* ------------------------------------------------------ __init__ (55-78)
LIC_init(metric, loss, thr, bs, ep) ==
    /\ pc = "start"
    /\ arg_metric' = metric
    /\ loss_function' = loss
    /\ batch_size' = bs
    /\ epochs' = ep
    /\ threshold' = thr
    /\ LET m == initEvalMetric(metric)
       IN  IF m.ok
           THEN /\ eval_metric' = m.fn
                /\ engine' = "live"
                /\ pc' = "idle"
                /\ error' = "none"
           ELSE /\ eval_metric' = eval_metric
                /\ engine' = "none"
                /\ pc' = "raised"
                /\ error' = "ValueError"
    /\ UNCHANGED <<vocab_size, modelVars, callVars, loopVars, leakVars,
                   trainArgs, trainVars, histVars>>

\* ------------------------------------------- captionPreprocess (197-211)
\* A direct call: the external caption processor fixes the vocabulary size.
captionPreprocess(v) ==
    /\ UNCHANGED arg_metric
    /\ Callable
    /\ vocab_size' = v
    /\ preprocessed' = 1
    /\ trained' = 0
    /\ pc' = "returned"
    /\ error' = "none"
    /\ attacker_mode' = "" /\ x' = <<>> /\ y' = <<>> /\ caller' = ""
    /\ model' = Unset
    /\ start' = 0 /\ batches' = 0 /\ epoch' = 0 /\ batch_no' = 0
    /\ epochLog' = <<>> /\ trace' = <<>>
    /\ data' = <<>> /\ pred' = <<>> /\ feat' = <<>>
    /\ num_trials' = 0 /\ method' = "" /\ normalized' = FALSE
    /\ i' = 0 /\ vals' = <<>> /\ result' = NoResult
    /\ lambda_d' = NoLambda /\ lambda_m' = NoLambda
    /\ UNCHANGED <<engineVars, modelVars>>

\* --------------------------------------- getAmortizedLeakage (222-229)
\* Entry: preprocess once, allocate vals, enter the first trial's calcLeak,
\* whose first statement is train(data, feat, "D").
getAmortizedLeakage(n, trials, meth, norm, v) ==
    /\ UNCHANGED arg_metric
    /\ Callable
    /\ vocab_size' = v
    /\ preprocessed' = 1
    /\ trained' = 0
    /\ pred' = Rows("gen", n)
    /\ data' = Rows("ref", n)
    /\ feat' = Rows("attr", n)
    /\ num_trials' = trials
    /\ method' = meth
    /\ normalized' = norm
    /\ vals' = [j \in 1..trials |-> Zero]
    /\ i' = 0
    /\ result' = NoResult
    /\ error' = "none"
    /\ IF trials > 0
       THEN /\ pc' = "train"
            /\ attacker_mode' = "D"
            /\ x' = data'
            /\ y' = feat'
            /\ caller' = "calcLeak"
       ELSE /\ pc' = "aggregate"
            /\ attacker_mode' = ""
            /\ x' = <<>>
            /\ y' = <<>>
            /\ caller' = ""
    /\ trace' = <<>>
    /\ model' = Unset
    /\ start' = 0 /\ batches' = 0 /\ epoch' = 0 /\ batch_no' = 0
    /\ epochLog' = <<>>
    /\ lambda_d' = NoLambda /\ lambda_m' = NoLambda
    /\ UNCHANGED <<engineVars, modelVars>>

\* ------------------------------------------------- train, direct call
train(n, mode) ==
    /\ UNCHANGED arg_metric
    /\ Callable
    /\ pc' = "train"
    /\ attacker_mode' = mode
    /\ x' = Rows("ref", n)
    /\ y' = Rows("attr", n)
    /\ caller' = "user"
    /\ error' = "none"
    /\ trace' = <<>>
    /\ preprocessed' = 0
    /\ trained' = 0
    /\ model' = Unset
    /\ start' = 0 /\ batches' = 0 /\ epoch' = 0 /\ batch_no' = 0
    /\ epochLog' = <<>>
    /\ data' = <<>> /\ pred' = <<>> /\ feat' = <<>>
    /\ num_trials' = 0 /\ method' = "" /\ normalized' = FALSE
    /\ i' = 0 /\ vals' = <<>> /\ result' = NoResult
    /\ lambda_d' = NoLambda /\ lambda_m' = NoLambda
    /\ UNCHANGED <<engineVars, vocab_size, modelVars>>

\* Where control goes when train returns.
TrainReturn == IF caller = "calcLeak" THEN "calcLambda" ELSE "returned"

TraceEntry(op, mode, ref, rows, h, val) ==
    [op |-> op, mode |-> mode, ref |-> ref,
     on |-> IF rows = <<>> THEN "" ELSE rows[1][1],
     updates |-> IF ref = Unset THEN 0 ELSE h[ref].updates,
     value |-> val]

\* train returns: its locals are gone, control is back in the caller.
train_return(tgt, h) ==
    /\ pc' = TrainReturn
    /\ trace' = Append(trace, TraceEntry("train", attacker_mode, tgt, x, h, Zero))
    /\ trained' = trained + 1
    /\ x' = <<>>
    /\ y' = <<>>
    /\ model' = Unset
    /\ start' = 0
    /\ batches' = 0
    /\ epoch' = 0
    /\ batch_no' = 0
    /\ epochLog' = <<>>
    /\ UNCHANGED <<attacker_mode, caller>>

\* ------------------------------------------------- train (119-128)
\* defineModel, select and switch the target to training mode, resolve the
\* loss, build the optimizer, compute the batch count.
train_setup ==
    /\ UNCHANGED arg_metric
    /\ pc = "train"
    /\ IF vocab_size = 0
       THEN /\ pc' = "raised"
            /\ error' = "AttributeError"
            /\ UNCHANGED <<modelVars, trainArgs, trainVars, histVars>>
       ELSE LET dm  == defineModel(heap, attacker_D, attacker_M, vocab_size)
                tgt == IF attacker_mode = "D" THEN dm.D ELSE dm.M
            IN  /\ attacker_D' = dm.D
                /\ attacker_M' = dm.M
                /\ params_vocab' = dm.pv
                /\ heap' = [dm.heap EXCEPT ![tgt].training = TRUE]
                /\ IF ~ResolveLoss(loss_function)
                   THEN /\ pc' = "raised"
                        /\ error' = "KeyError"
                        /\ model' = tgt
                        /\ UNCHANGED <<trainArgs, start, batches, epoch, batch_no,
                                       histVars>>
                   ELSE /\ error' = "none"
                        /\ IF epochs >= 1
                           THEN /\ pc' = "epoch"
                                /\ model' = tgt
                                /\ batches' = Batches(Len(x), batch_size)
                                /\ epoch' = 1
                                /\ start' = 0
                                /\ batch_no' = 0
                                /\ epochLog' = <<>>
                                /\ UNCHANGED <<trainArgs, trace, trained>>
                           ELSE train_return(tgt, heap')
    /\ UNCHANGED <<engineVars, vocab_size, callVars, loopVars, leakVars, preprocessed>>

\* ------------------------------------------------- train (130-133)
\* A fresh permutation reorders inputs and targets.
PermuteInputs(s, perm) == Index(s, perm)

\* Faulty variant of PermuteTargets: the targets keep their order.
PermuteTargets_unshuffled(s, perm) == s

PermuteTargets(s, perm) == Index(s, perm)

train_epoch(perm) ==
    /\ UNCHANGED arg_metric
    /\ pc = "epoch"
    /\ x' = PermuteInputs(x, perm)
    /\ y' = PermuteTargets(y, perm)
    /\ start' = 0
    /\ batch_no' = 0
    /\ epochLog' = <<>>
    /\ pc' = "batch"
    /\ UNCHANGED <<engineVars, vocab_size, modelVars, error, callVars, loopVars,
                   leakVars, attacker_mode, caller, model, batches, epoch,
                   trace, preprocessed, trained>>

\* ------------------------------------------------- train (135-153)
\* One slice: forward, loss, backward, optimizer step on the target.
train_batch ==
    /\ UNCHANGED arg_metric
    /\ pc = "batch"
    /\ batch_no < batches
    /\ epochLog' = Append(epochLog,
                     Zip(Slice(x, start, batch_size), Slice(y, start, batch_size)))
    /\ heap' = [heap EXCEPT ![model].updates = @ + 1]
    /\ start' = start + batch_size
    /\ batch_no' = batch_no + 1
    /\ UNCHANGED <<engineVars, vocab_size, params_vocab, attacker_D, attacker_M,
                   pc, error, callVars, loopVars, leakVars, trainArgs, model,
                   batches, epoch, trace, preprocessed, trained>>

\* ------------------------------------------------- train (155-160)
\* The batch loop is exhausted: step the scheduler, next epoch or return.
train_epoch_end ==
    /\ UNCHANGED arg_metric
    /\ pc = "batch"
    /\ batch_no = batches
    /\ IF epoch < epochs
       THEN /\ pc' = "epoch"
            /\ epoch' = epoch + 1
            /\ UNCHANGED <<trainArgs, model, start, batches, batch_no, epochLog,
                           trace, trained>>
       ELSE train_return(model, heap)
    /\ UNCHANGED <<engineVars, vocab_size, modelVars, error, callVars, loopVars,
                   leakVars, preprocessed>>

\* --------------------------------- calcLeak (104, 106) and calcLambda
\* Faulty variant of EvalTarget: the attacker of the other mode is evaluated.
EvalTarget_swapped(mode, d, m) == IF mode = "D" THEN m ELSE d

\* getattr(self, "attacker_" + mode): the instance handed to calcLambda
EvalTarget(mode, d, m) == IF mode = "D" THEN d ELSE m

\* calcLambda on the attacker of the phase just trained, then the next
\* statement of calcLeak: train(pred, feat, "M") after lambda_d, the
\* leakage arithmetic after lambda_m.
calcLambda(out, ext) ==
    /\ UNCHANGED arg_metric
    /\ pc = "calcLambda"
    /\ LET tgt  == EvalTarget(attacker_mode, attacker_D, attacker_M)
           rows == IF attacker_mode = "D" THEN data ELSE pred
           lam  == Lambda(eval_metric, threshold, batch_size, Len(rows), out, ext)
       IN  /\ heap' = [heap EXCEPT ![tgt].training = FALSE]
           /\ trace' = Append(trace, TraceEntry("eval", attacker_mode, tgt, rows, heap, lam.v))
           /\ IF attacker_mode = "D"
              THEN /\ lambda_d' = lam
                   /\ lambda_m' = lambda_m
                   /\ pc' = "train"
                   /\ attacker_mode' = "M"
                   /\ x' = pred
                   /\ y' = feat
              ELSE /\ lambda_m' = lam
                   /\ lambda_d' = lambda_d
                   /\ pc' = "leak"
                   /\ UNCHANGED <<attacker_mode, x, y>>
    /\ UNCHANGED <<engineVars, vocab_size, params_vocab, attacker_D, attacker_M,
                   error, callVars, loopVars, caller, trainVars, epochLog,
                   preprocessed, trained>>

\* ------------------------- calcLeak (108-111), getAmortizedLeakage (229)
\* The leakage value is stored as trial i's value; the loop goes on to the
\* next trial or leaves for the aggregation.
calcLeak_return ==
    /\ UNCHANGED arg_metric
    /\ pc = "leak"
    /\ LET r == Leakage(lambda_d, lambda_m, normalized)
       IN  IF ~r.ok
           THEN /\ pc' = "raised"
                /\ error' = "ZeroDivisionError"
                /\ UNCHANGED <<loopVars, trainArgs, trace>>
           ELSE /\ vals' = [vals EXCEPT ![i + 1] = r.v]
                /\ i' = i + 1
                /\ result' = result
                /\ error' = error
                /\ IF i + 1 < num_trials
                   THEN /\ pc' = "train"
                        /\ attacker_mode' = "D"
                        /\ x' = data
                        /\ y' = feat
                        /\ caller' = caller
                        /\ trace' = <<>>
                   ELSE /\ pc' = "aggregate"
                        /\ UNCHANGED <<trainArgs, trace>>
    /\ lambda_d' = NoLambda
    /\ lambda_m' = NoLambda
    /\ UNCHANGED <<engineVars, vocab_size, modelVars, callVars, trainVars,
                   epochLog, preprocessed, trained>>

\* ------------------------------------- getAmortizedLeakage (231-244)
getAmortizedLeakage_aggregate ==
    /\ UNCHANGED arg_metric
    /\ pc = "aggregate"
    /\ LET a == Aggregate(method, vals, num_trials)
       IN  IF a.ok
           THEN /\ result' = a.r
                /\ pc' = "returned"
                /\ error' = "none"
           ELSE /\ result' = result
                /\ pc' = "raised"
                /\ error' = "ValueError"
    /\ UNCHANGED <<engineVars, vocab_size, modelVars, callVars, i, vals,
                   leakVars, trainArgs, trainVars, histVars>>

\* ----------------------------------------------------------- specifications
\* The steps every running call is made of.
Steps ==
    \/ train_setup
    \/ \E perm \in Perms(Len(x)) : train_epoch(perm)
    \/ train_batch
    \/ train_epoch_end
    \/ \E out \in [1..Len(data) -> OutVals], ext \in ExtVals : calcLambda(out, ext)
    \/ calcLeak_return
    \/ getAmortizedLeakage_aggregate

\* Spec: the amortized measurement over every trial count, method and
\* normalization, on tensors of one or two rows and one epoch per phase.
Next ==
    \/ \E metric \in {Str("accuracy"), UserMetric}, thr \in BOOLEAN, bs \in {1, 2} :
            LIC_init(metric, "bce", thr, bs, 1)
    \/ \E n \in {1, 2}, trials \in 1..MaxTrials, meth \in Methods, norm \in BOOLEAN :
            getAmortizedLeakage(n, trials, meth, norm, 1)
    \/ Steps

Spec == Init /\ [][Next]_vars

\* SpecConfig: every kind of metric argument and loss identifier, one trial.
NextConfig ==
    \/ \E metric \in {Str("accuracy"), Str("mse"), Str("bce"), Str("foo"),
                      UserMetric, NotAMetric},
          loss \in {"mse", "cross-entropy", "bce", "hinge"}, thr \in BOOLEAN,
          bs \in 1..MaxBatch :
            LIC_init(metric, loss, thr, bs, 1)
    \/ \E n \in 1..MaxN, meth \in Methods, norm \in BOOLEAN :
            getAmortizedLeakage(n, 1, meth, norm, 1)
    \/ Steps

SpecConfig == Init /\ [][NextConfig]_vars

\* SpecLeak: the phases of calcLeak over every tensor size, batch size, epoch
\* count and vocabulary size, one or two trials per call.
NextLeak ==
    \/ \E bs \in 1..MaxBatch, ep \in 1..MaxEpochs :
            LIC_init(Str("accuracy"), "bce", TRUE, bs, ep)
    \/ \E n \in 1..MaxN, trials \in {1, 2}, v \in 1..MaxVocab :
            getAmortizedLeakage(n, trials, "mean", FALSE, v)
    \/ Steps

SpecLeak == Init /\ [][NextLeak]_vars

\* SpecTrain: direct calls of train on larger tensors.
TrainSteps ==
    \/ train_setup
    \/ \E perm \in Perms(Len(x)) : train_epoch(perm)
    \/ train_batch
    \/ train_epoch_end

NextTrain ==
    \/ \E bs \in 1..MaxTrainBatch, ep \in 1..MaxEpochs :
            LIC_init(Str("accuracy"), "bce", TRUE, bs, ep)
    \/ captionPreprocess(1)
    \/ \E n \in 1..MaxTrainN, mode \in {"D", "M"} : train(n, mode)
    \/ TrainSteps

SpecTrain == Init /\ [][NextTrain]_vars


\* ================================================================== claims
\* The least k with k * bs >= n, for n >= 1.
CeilDiv(n, bs) == CHOOSE k \in 1..n : k * bs >= n /\ (k - 1) * bs < n

RECURSIVE Flatten(_, _)
Flatten(log, k) == IF k = 0 THEN <<>> ELSE Flatten(log, k - 1) \o log[k]

\* The attacker that the running training phase trains, and the other one.
ModeAttacker == IF attacker_mode = "D" THEN attacker_D ELSE attacker_M
OtherAttacker == IF attacker_mode = "D" THEN attacker_M ELSE attacker_D

\* A direct train call has returned.
TrainReturned == pc = "returned" /\ caller = "user" /\ trained = 1

C5_FreshPerPhase ==
    /\ pc \in {"epoch", "batch"} =>
         /\ model = ModeAttacker
         /\ heap[model].updates =
               (epoch - 1) * batches + (IF pc = "batch" THEN batch_no ELSE 0)
         /\ heap[OtherAttacker].updates = 0
    /\ TrainReturned =>
         /\ heap[OtherAttacker].updates = 0
         /\ heap[ModeAttacker].updates = trace[1].updates

\* C5 witness: train(mode=M) has returned with M trained and D untrained.
C5_Witness ==
    /\ TrainReturned /\ attacker_mode = "M"
    /\ heap[attacker_M].updates >= 2
    /\ heap[attacker_D].updates = 0

\* C10: D and M are distinct instances; the attacker a phase does not train
\* holds, throughout the phase, the parameters it was created with, a copy
\* of D's initial ones; an optimizer step changes the trained instance only.
C10_Distinct ==
    /\ attacker_D # Unset => attacker_D # attacker_M
    /\ pc \in {"epoch", "batch"} =>
         /\ heap[OtherAttacker].init = NewD
         /\ heap[model].init = NewD
         /\ heap[OtherAttacker].training

C10_StepFrame ==
    (pc = "batch" /\ batch_no' = batch_no + 1) =>
        /\ heap'[OtherAttacker] = heap[OtherAttacker]
        /\ heap'[model] = [heap[model] EXCEPT !.updates = @ + 1]
        /\ OtherAttacker # model

C10_NoSharedStorage == [](C10_Distinct) /\ [][C10_StepFrame]_vars

\* C10 witness: two optimizer steps into a phase that trains M, D still
\* holding the initial parameters M started from.
C10_Witness ==
    /\ pc = "batch" /\ attacker_mode = "M"
    /\ heap[attacker_M].updates >= 2
    /\ heap[attacker_D] = [heap[attacker_M] EXCEPT !.updates = 0]


\* C3: an eval_metric argument that is an unrecognized string, or neither a
\* callable nor a string, makes __init__ raise ValueError and leaves no
\* engine on which anything could run; a callable or a recognized string is
\* accepted and stays the evaluation metric.
C3_MetricCheckedAtInit ==
    pc # "start" =>
        LET rejected ==
              \/ arg_metric.t = "str" /\ arg_metric.v \notin {"accuracy", "mse", "bce"}
              \/ arg_metric.t \notin {"str", "callable"}
        IN  /\ rejected =>
                /\ engine = "none" /\ pc = "raised" /\ error = "ValueError"
                /\ attacker_D = Unset /\ attacker_M = Unset
                /\ preprocessed = 0 /\ trained = 0 /\ trace = <<>>
            /\ ~rejected => engine = "live" /\ eval_metric = arg_metric.v

\* C3 witness: construction with the metric string "foo" has failed.
C3_Witness ==
    /\ arg_metric = Str("foo")
    /\ engine = "none" /\ pc = "raised" /\ error = "ValueError"

\* C4: an engine is constructed with a loss identifier outside
\* {mse, cross-entropy, bce}; its first train call raises KeyError after
\* defineModel and before any batch, so no call gets past that point and no
\* attacker of that engine ever receives an optimizer step.
C4_LossCheckedAtTrain ==
    (engine = "live" /\ loss_function \notin {"mse", "cross-entropy", "bce"}) =>
        /\ pc \in {"idle", "train", "raised"}
        /\ pc = "train" => i = 0 /\ attacker_mode = "D"
        /\ pc = "raised" => error = "KeyError" /\ i = 0 /\ attacker_D # Unset
        /\ trained = 0 /\ epochLog = <<>> /\ batch_no = 0
        /\ \A id \in Ids : heap[id].updates = 0

\* C4 witness: the first train call of an engine built with loss "hinge"
\* has raised, the fresh attackers untouched.
C4_Witness ==
    /\ engine = "live" /\ loss_function = "hinge"
    /\ pc = "raised" /\ error = "KeyError"
    /\ attacker_D # Unset /\ heap[attacker_D].updates = 0

\* C2: a getAmortizedLeakage call whose method is neither "mean" nor
\* "median" never returns a result; the ValueError for the method is raised
\* only when all num_trials trials, two training phases each, have run, and
\* nothing is raised for it earlier (a call may end earlier only because a
\* trial itself raised).
C2_MethodCheckedLast ==
    (caller = "calcLeak" /\ method \notin {"mean", "median"}) =>
        /\ pc # "returned"
        /\ result = NoResult
        /\ pc = "aggregate" => i = num_trials /\ trained = 2 * num_trials
        /\ pc # "raised" => error = "none"
        /\ pc = "raised" =>
              \/ error = "ValueError" /\ i = num_trials /\ trained = 2 * num_trials
              \/ error = "ZeroDivisionError" /\ i < num_trials /\ trained = 2 * (i + 1)

\* C2 witness: method "mode", two trials: raised after four training phases.
C2_Witness ==
    /\ method = "mode" /\ num_trials = 2
    /\ pc = "raised" /\ error = "ValueError"
    /\ i = 2 /\ trained = 4

\* C6 (as claimed): with normalized=True a zero lambda_M + lambda_D raises,
\* so no nan or inf is ever stored as a trial value or aggregated.
C6_ZeroDenominatorRaises ==
    normalized =>
        /\ \A j \in 1..Len(vals) : IsFin(vals[j])
        /\ pc = "returned" => IsFin(result.value)

RECURSIVE SqDev(_, _, _)
SqDev(v, m, n) ==
    IF n = 0 THEN Zero
    ELSE VAdd(SqDev(v, m, n - 1), VMul(VSub(v[n], m), VSub(v[n], m)))

AllFinite(v) == \A j \in 1..Len(v) : IsFin(v[j])

\* What a "mean" call returns in every case: the count, and the trials run.
C7_Counts ==
    /\ i = num_trials /\ Len(vals) = num_trials
    /\ trained = 2 * num_trials
    /\ result.num_trials = num_trials

\* mean * n = sum of the values; std^2 * (n - 1) = sum of squared deviations
C7_IsSampleMeanStd ==
    /\ IsFin(result.value)
    /\ VMul(result.value, Fin(num_trials, 1)) = VSum(vals, num_trials)
    /\ IsFin(result.std_squared)
    /\ VMul(result.std_squared, Fin(num_trials - 1, 1))
          = SqDev(vals, result.value, num_trials)

\* C7 (as claimed): for every num_trials >= 1 a "mean" call returns the
\* sample mean, the sample standard deviation and the count, all three
\* well-defined.
C7_Original ==
    (pc = "returned" /\ result.key = "Mean") => C7_Counts /\ C7_IsSampleMeanStd

\* C7 (amended): a "mean" call runs exactly num_trials trials and returns
\* their count; with num_trials >= 2 and finite trial values it returns their
\* sample mean and sample (divisor n-1) standard deviation; with
\* num_trials = 1 the mean is the single value and the standard deviation is
\* nan; a trial value that is not finite (the nan of a zero denominator)
\* makes the standard deviation nan and the mean non-finite.
C7_MeanStd ==
    (pc = "returned" /\ result.key = "Mean") =>
        /\ C7_Counts
        /\ (AllFinite(vals) /\ num_trials >= 2) => C7_IsSampleMeanStd
        /\ num_trials = 1 => result.value = vals[1] /\ result.std_squared = NaN
        /\ ~AllFinite(vals) => ~IsFin(result.value) /\ result.std_squared = NaN

\* C7 witness: two trials with different finite values have been averaged.
C7_Witness ==
    /\ pc = "returned" /\ result.key = "Mean" /\ num_trials = 2
    /\ AllFinite(vals) /\ vals[1] # vals[2]
    /\ IsFin(result.std_squared) /\ result.std_squared # Zero

\* The attackers the engine holds were created by the running call.
CreatedInCall ==
    /\ caller = "calcLeak"
    /\ \/ pc \in {"epoch", "batch", "calcLambda", "leak", "aggregate", "returned"}
       \/ pc = "train" /\ (i > 0 \/ attacker_mode = "M")

InCall == caller = "calcLeak" /\ pc \notin {"idle", "start"}

\* C8: in a getAmortizedLeakage call the preprocessing ran once, the token
\* tensors are those it produced, and every attacker created in the call, D
\* and M alike, was built with the call's vocabulary size.
C8_State ==
    InCall =>
        /\ preprocessed = 1
        /\ vocab_size >= 1
        /\ data = Rows("ref", Len(feat)) /\ pred = Rows("gen", Len(feat))
        /\ CreatedInCall =>
              /\ heap[attacker_D].vocab = vocab_size
              /\ heap[attacker_M].vocab = vocab_size
              /\ params_vocab = vocab_size

\* ... and none of them changes while the call runs.
C8_Step ==
    (InCall /\ pc \notin {"returned", "raised"}) =>
        /\ vocab_size' = vocab_size
        /\ data' = data /\ pred' = pred /\ feat' = feat
        /\ preprocessed' = preprocessed

C8_VocabFixedPerCall == [](C8_State) /\ [][C8_Step]_vars

\* C8 witness: the M phase of the second trial of a call with vocabulary
\* size 2 is training an attacker built with that size.
C8_Witness ==
    /\ pc = "batch" /\ i = 1 /\ attacker_mode = "M"
    /\ vocab_size = 2 /\ heap[attacker_M].vocab = 2

\* The steps of one calcLeak call, in order.
C9_Order ==
    <<[op |-> "train", mode |-> "D", on |-> "ref"],
      [op |-> "eval",  mode |-> "D", on |-> "ref"],
      [op |-> "train", mode |-> "M", on |-> "gen"],
      [op |-> "eval",  mode |-> "M", on |-> "gen"]>>

\* C9: the steps of a calcLeak call run in the order train D on the
\* reference rows, evaluate D on them, train M on the generated rows,
\* evaluate M on them; each evaluation is given the instance the phase
\* before it trained, carrying all epochs * ceil(N / batch_size) optimizer
\* steps of that phase; the trial's value is lambda_m - lambda_d.
C9_State ==
    caller = "calcLeak" =>
        /\ Len(trace) <= 4
        /\ \A k \in 1..Len(trace) :
              /\ trace[k].op = C9_Order[k].op
              /\ trace[k].mode = C9_Order[k].mode
              /\ trace[k].on = C9_Order[k].on
              /\ trace[k].updates = epochs * CeilDiv(Len(feat), batch_size)
              /\ trace[k].updates >= 1
              /\ trace[k].ref = (IF trace[k].mode = "D" THEN attacker_D ELSE attacker_M)
              /\ trace[k].op = "eval" => trace[k].ref = trace[k - 1].ref
        /\ pc = "calcLambda" => Len(trace) = (IF attacker_mode = "D" THEN 1 ELSE 3)
        /\ pc = "leak" =>
              /\ Len(trace) = 4
              /\ lambda_d.v = trace[2].value
              /\ lambda_m.v = trace[4].value

C9_Step ==
    (pc = "leak" /\ ~normalized /\ pc' # "raised") =>
        /\ i' = i + 1
        /\ vals'[i'] = VSub(lambda_m.v, lambda_d.v)

====
